---------------------------- MODULE Spec2Model ----------------------------
(***************************************************************************)
(* The zip managers of ManagerObjects: ZipReplace.py (the original         *)
(* manager), ZipProcessor.py (inheritance), ScaleZip.py (the photo scaler) *)
(* and ZipProcessorComposition.py (composition).  Every manager runs       *)
(*     unzip_files ; process_files (find_replace) ; zip_files              *)
(* on the archive `filename`, with the directory "unzipped-<filename>" as  *)
(* working area.  The state is the filesystem (the archives and the        *)
(* working directories), the job each process is running, its position in  *)
(* the manager, what it printed and how it ended.                          *)
(***************************************************************************)
EXTENDS Integers, Sequences, FiniteSets, TLC

\* ------------------------------------------------------------ bounds
\* Longest text stored in a file of an archive or of a working directory.
MaxLen == 2
\* Most command-line arguments given to a script.
MaxArgc == 3

\* ------------------------------------------------------------ values
\* The characters of a text.  CR and LF are "\r" and "\n".
Chars == {"a", "CR", "LF"}

SeqsUpTo(S, n) == UNION {[1..k -> S] : k \in 0..n}

\* The byte content of a text file.
Texts == SeqsUpTo(Chars, MaxLen)

\* Python's os.linesep: "\n" on POSIX, "\r\n" on Windows.
LineSeps == {<<"LF">>, <<"CR", "LF">>}

\* ------------------------------------------------------------ text I/O
\* file.read() of a file opened in text mode (newline=None): universal
\* newlines, "\r\n" and "\r" are both read as "\n".
RECURSIVE ReadText(_)
ReadText(bytes) ==
    IF bytes = <<>> THEN <<>>
    ELSE IF Head(bytes) = "CR"
         THEN IF Len(bytes) >= 2 /\ bytes[2] = "LF"
              THEN <<"LF">> \o ReadText(SubSeq(bytes, 3, Len(bytes)))
              ELSE <<"LF">> \o ReadText(Tail(bytes))
         ELSE <<Head(bytes)>> \o ReadText(Tail(bytes))

\* file.write(contents) of a file opened with "w" in text mode: every "\n"
\* is written as os.linesep.
RECURSIVE WriteText(_, _)
WriteText(str, linesep) ==
    IF str = <<>> THEN <<>>
    ELSE (IF Head(str) = "LF" THEN linesep ELSE <<Head(str)>>)
         \o WriteText(Tail(str), linesep)

\* str.replace(old, new) with old = "": new is put before every character
\* and at the end.
RECURSIVE Interleave(_, _)
Interleave(str, new) ==
    IF str = <<>> THEN new
    ELSE new \o <<Head(str)>> \o Interleave(Tail(str), new)

IsPrefix(p, str) ==
    Len(p) <= Len(str) /\ SubSeq(str, 1, Len(p)) = p

\* str.replace(old, new) with old # "": scan from the left, replace each
\* occurrence found and go on after it (occurrences never overlap).
RECURSIVE ReplaceScan(_, _, _)
ReplaceScan(str, old, new) ==
    IF Len(str) < Len(old) THEN str
    ELSE IF IsPrefix(old, str)
         THEN new \o ReplaceScan(SubSeq(str, Len(old) + 1, Len(str)), old, new)
         ELSE <<Head(str)>> \o ReplaceScan(Tail(str), old, new)

\* contents.replace(self.search_string, self.replace_string)
StrReplace(str, old, new) ==
    IF old = <<>> THEN Interleave(str, new) ELSE ReplaceScan(str, old, new)

\* ------------------------------------------------------------ files
\* A finite map, as a function; Put writes one key.
EmptyMap == [k \in {} |-> k]
Put(m, k, v) == [x \in DOMAIN m \cup {k} |-> IF x = k THEN v ELSE m[x]]

\* What a file holds: a text (its bytes), or an image of w x h pixels.  A
\* child of a working directory is a file or a sub-directory; an entry of an
\* archive is a file or a directory entry ("sub/").
TextFile(bytes) == [kind |-> "text", data |-> bytes]
ImageFile(w, h) == [kind |-> "image", w |-> w, h |-> h]
SubDir(children) == [kind |-> "dir", children |-> children]
DirEntry == [kind |-> "dirent"]

\* The temporary directory: absent, or present with its children by name.
NoDir == [present |-> FALSE, files |-> EmptyMap]
Dir(files) == [present |-> TRUE, files |-> files]

\* The archive file: no such file, a file that is not a zip archive, or a
\* zip archive with its entries by name.  An entry name is the sequence of
\* the components of its path: "f" is <<"f">>, "sub/f" is <<"sub", "f">>.
NoArchive == [state |-> "missing", entries |-> EmptyMap]
BadArchive == [state |-> "corrupt", entries |-> EmptyMap]
Zip(entries) == [state |-> "zip", entries |-> entries]

\* zip.extractall(temp_directory), one member: a file "f" is written into
\* the directory (over a file of that name), a file "sub/f" is written into
\* the sub-directory "sub", created when needed.
ExtractMember(files, name, content) ==
    IF Len(name) = 1
    THEN Put(files, name[1],
             IF content = DirEntry
             THEN (IF name[1] \in DOMAIN files /\ files[name[1]].kind = "dir"
                   THEN files[name[1]] ELSE SubDir(EmptyMap))
             ELSE content)
    ELSE Put(files, name[1],
             SubDir(Put(IF name[1] \in DOMAIN files /\ files[name[1]].kind = "dir"
                        THEN files[name[1]].children ELSE EmptyMap,
                        name[2], content)))

\* zip.extractall(temp_directory): every member of the archive.
RECURSIVE ExtractAll(_, _, _)
ExtractAll(files, entries, names) ==
    IF names = {} THEN files
    ELSE LET n == CHOOSE x \in names : TRUE
         IN ExtractAll(ExtractMember(files, n, entries[n]), entries, names \ {n})

\* file.write(str(filename), filename.name): the child is stored under its
\* base name; of a sub-directory only the directory entry is stored, not the
\* files in it.
ArchiveMember(node) == IF node.kind = "dir" THEN DirEntry ELSE node

\* ------------------------------------------------------------ transforms
\* The target size of ScaleZip.process_files: im.resize((640, 480)).
ScaleWidth == 640
ScaleHeight == 480

Done(node) == [ok |-> TRUE, node |-> node, err |-> "none"]
Failed(e) == [ok |-> FALSE, node |-> DirEntry, err |-> e]

\* The body of the loop of find_replace / ZipReplace.process_files on one
\* child: read it as text, replace, write it back as text.  A child that is
\* a directory cannot be opened, a file that is not text cannot be decoded.
FindReplace(node, search, replace, linesep) ==
    IF node.kind = "dir" THEN Failed("IsADirectoryError")
    ELSE IF node.kind # "text" THEN Failed("UnicodeDecodeError")
    ELSE Done(TextFile(WriteText(StrReplace(ReadText(node.data), search, replace),
                                 linesep)))

\* Scale, were it to keep the aspect ratio and never enlarge (im.thumbnail).
ScaleThumbnail(node) ==
    IF node.kind = "dir" THEN Failed("IsADirectoryError")
    ELSE IF node.kind # "image" THEN Failed("UnidentifiedImageError")
    ELSE Done(ImageFile(IF node.w < ScaleWidth THEN node.w ELSE ScaleWidth,
                        IF node.h < ScaleHeight THEN node.h ELSE ScaleHeight))

\* The body of the loop of ScaleZip.process_files on one child: open it as
\* an image, resize it to 640 x 480, save it over the file.
Scale(node) ==
    IF node.kind = "dir" THEN Failed("IsADirectoryError")
    ELSE IF node.kind # "image" THEN Failed("UnidentifiedImageError")
    ELSE Done(ImageFile(ScaleWidth, ScaleHeight))

\* A job is one manager object: the module and class it is built from and
\* its fields (filename, search_string, replace_string).
Job(module, cls, file, search, replace) ==
    [module |-> module, cls |-> cls, file |-> file,
     search |-> search, replace |-> replace]

\* The same loop body as it is written in the first design, the method
\* find_replace of the class ZipReplace of ZipReplace.py.
FindReplaceOriginal(node, search, replace, linesep) ==
    IF node.kind = "dir" THEN Failed("IsADirectoryError")
    ELSE IF node.kind # "text" THEN Failed("UnicodeDecodeError")
    ELSE LET contents == ReadText(node.data)
             replaced == StrReplace(contents, search, replace)
         IN Done(TextFile(WriteText(replaced, linesep)))

\* FindReplaceComposition, were the composed processor to open its files
\* with newline="" and so to read and write the characters as they are.
FindReplaceCompositionRaw(node, search, replace, linesep) ==
    IF node.kind = "dir" THEN Failed("IsADirectoryError")
    ELSE IF node.kind # "text" THEN Failed("UnicodeDecodeError")
    ELSE Done(TextFile(StrReplace(node.data, search, replace)))

\* The same loop body as it is written in the third design, the method
\* process_files of the processor ZipReplace of ZipProcessorComposition.py,
\* which is handed the manager and goes through its temp_directory.
FindReplaceComposition(node, search, replace, linesep) ==
    IF node.kind = "dir" THEN Failed("IsADirectoryError")
    ELSE IF node.kind # "text" THEN Failed("UnicodeDecodeError")
    ELSE LET contents == ReadText(node.data)
             replaced == StrReplace(contents, search, replace)
         IN Done(TextFile(WriteText(replaced, linesep)))

\* What process_files does to one child, by the module and the class of
\* the job.
ProcessOne(job, node, linesep) ==
    IF job.cls = "ZipReplace"
    THEN CASE job.module = "ZipReplace.py" ->
                FindReplaceOriginal(node, job.search, job.replace, linesep)
           [] job.module = "ZipProcessorComposition.py" ->
                FindReplaceComposition(node, job.search, job.replace, linesep)
           [] OTHER ->
                FindReplace(node, job.search, job.replace, linesep)
    ELSE Scale(node)

\* ------------------------------------------------------------ state
VARIABLES
    arch,      \* arch[f]: the archive file named f
    tmp,       \* tmp[d]: the directory "unzipped-f"
    linesep,   \* os.linesep of the platform
    script,    \* script[p]: the script process p runs as __main__, or "none"
               \*            when p is a caller that holds a manager object
    argv,      \* argv[p]: sys.argv[1:]
    jobs,      \* jobs[p]: the manager objects p runs, in order
    cur,       \* cur[p]: the index in jobs[p] of the manager that is running
    pc,        \* pc[p]: where p is
    todo,      \* todo[p]: the children iterdir() listed that the loop has
               \*          not visited yet
    err,       \* err[p]: the exception that ended p, or "none"
    out,       \* out[p]: the lines p printed
    status,    \* status[p]: -1 while p runs, then its exit status
    calls,     \* calls[p]: the methods p entered, and "raise", in order
    arch0,     \* arch and tmp as they were at the start
    tmp0

vars == <<arch, tmp, linesep, script, argv, jobs, cur, pc, todo, err, out,
          status, calls, arch0, tmp0>>

\* The processes: one, the single manager run of the scripts.
Procs == {1}

\* The manager object that process p is running, and its file.
Self(p) == jobs[p][cur[p]]
File(p) == Self(p).file

\* TempDirectory, were the directory of every manager the same "unzipped".
TempDirectoryFixed(filename) == <<"unzipped">>

\* self.temp_directory = Path("unzipped-{}".format(filename)): the name of
\* the directory is made of the name of the archive and of nothing else.
TempDirectory(filename) == <<"unzipped-", filename>>

\* The temporary directory of the manager that process p is running.
Temp(p) == TempDirectory(File(p))

\* ------------------------------------------------------------ __main__
Warning == "WARNING: temp dir already present!"
CheckArgs == "Please check the number of arguments"
UsageExample == "Usage example"
Executed == "executed with parameters"

\* The number of arguments each script asks for.
ZipReplaceArgc == 3
ScaleZipArgc == 1

Mario == <<"M", "a", "r", "i", "o">>
Maria == <<"M", "a", "r", "i", "a">>

\* ZipReplace.py run as a script: with three arguments,
\* ZipReplace(*sys.argv[1:4]).zip_find_replace(); else no manager is built.
MainZipReplace(args) ==
    IF Len(args) = ZipReplaceArgc
    THEN <<Job("ZipReplace.py", "ZipReplace", args[1], args[2], args[3])>>
    ELSE <<>>

\* ZipProcessor.py run as a script: with three arguments,
\* ZipReplace(*sys.argv[1:4]).process_zip().
MainZipProcessor(args) ==
    IF Len(args) = ZipReplaceArgc
    THEN <<Job("ZipProcessor.py", "ZipReplace", args[1], args[2], args[3])>>
    ELSE <<>>

\* ScaleZip.py run as a script: with one argument,
\* ScaleZip(*sys.argv[1:2]).process_zip().
MainScaleZip(args) ==
    IF Len(args) = ScaleZipArgc
    THEN <<Job("ScaleZip.py", "ScaleZip", args[1], <<>>, <<>>)>>
    ELSE <<>>

\* ZipProcessorComposition.py: the calls at the end of the module, which
\* look at no argument.
MainComposition ==
    <<Job("ZipProcessorComposition.py", "ScaleZip", "Immagini.zip", <<>>, <<>>),
      Job("ZipProcessorComposition.py", "ZipReplace", "provaReplace.zip",
          Mario, Maria)>>

MainJobs(s, args) ==
    CASE s = "ZipReplace.py" -> MainZipReplace(args)
      [] s = "ZipProcessor.py" -> MainZipProcessor(args)
      [] s = "ScaleZip.py" -> MainScaleZip(args)
      [] OTHER -> MainComposition

\* The scripts whose __main__ block prints after the manager has returned.
PrintsExecuted(s) == s \in {"ZipReplace.py", "ZipProcessor.py", "ScaleZip.py"}

\* Raise, were process_zip to catch the exception and go on with zip_files.
RaiseSwallowed(p, entered, e) ==
    /\ pc' = [pc EXCEPT ![p] = "zip"]
    /\ err' = [err EXCEPT ![p] = e]
    /\ status' = status
    /\ calls' = [calls EXCEPT ![p] = @ \o entered \o <<"raise">>]

\* An exception nothing catches: the process ends with a traceback, exit
\* status 1.  `entered` is what the step entered before it raised.
Raise(p, entered, e) ==
    /\ pc' = [pc EXCEPT ![p] = "exit"]
    /\ err' = [err EXCEPT ![p] = e]
    /\ status' = [status EXCEPT ![p] = 1]
    /\ calls' = [calls EXCEPT ![p] = @ \o entered \o <<"raise">>]

\* The __main__ block up to the call of the manager: the manager is built
\* and entered, or the two usage lines are printed and the script ends (it
\* calls no sys.exit, so with exit status 0).
Main(p) ==
    /\ pc[p] = "main"
    /\ LET js == MainJobs(script[p], argv[p])
       IN IF js # <<>>
          THEN /\ jobs' = [jobs EXCEPT ![p] = js]
               /\ cur' = [cur EXCEPT ![p] = 1]
               /\ pc' = [pc EXCEPT ![p] = "unzip"]
               /\ UNCHANGED <<out, status>>
          ELSE /\ out' = [out EXCEPT ![p] = @ \o <<CheckArgs, UsageExample>>]
               /\ pc' = [pc EXCEPT ![p] = "exit"]
               /\ status' = [status EXCEPT ![p] = 0]
               /\ UNCHANGED <<jobs, cur>>
    /\ UNCHANGED <<arch, tmp, linesep, script, argv, todo, err, calls, arch0, tmp0>>

\* ------------------------------------------------------------ the manager
\* Mkdir, were FileExistsError not caught.
MkdirUncaught(d) ==
    IF d.present
    THEN [dir |-> d, warned |-> FALSE, err |-> "FileExistsError"]
    ELSE [dir |-> Dir(EmptyMap), warned |-> FALSE, err |-> "none"]

\* Mkdir, were a directory that is already there emptied before it is used.
MkdirPurging(d) ==
    IF d.present
    THEN [dir |-> Dir(EmptyMap), warned |-> TRUE, err |-> "none"]
    ELSE [dir |-> Dir(EmptyMap), warned |-> FALSE, err |-> "none"]

\* The try block of unzip_files: temp_directory.mkdir() makes the
\* directory; FileExistsError is caught, a warning is printed and the
\* directory that is there is used as it is.
Mkdir(d) ==
    IF d.present
    THEN [dir |-> d, warned |-> TRUE, err |-> "none"]
    ELSE [dir |-> Dir(EmptyMap), warned |-> FALSE, err |-> "none"]

\* UnzipFiles, were a run to wait at the start of unzip_files for as long as
\* another run is using the directory of that name.
UnzipFilesLocked(p) ==
    /\ pc[p] = "unzip"
    /\ \A q \in DOMAIN pc \ {p} :
          ~(/\ jobs[q] # <<>>
            /\ Temp(q) = Temp(p)
            /\ pc[q] \in {"process", "loop", "zip", "zipwrite", "rmtree", "return"})
    /\ LET f == File(p)
           d == Temp(p)
           made == Mkdir(tmp[d])
       IN /\ out' = [out EXCEPT ![p] =
                        IF made.warned THEN Append(@, Warning) ELSE @]
          /\ IF made.err # "none"
             THEN /\ Raise(p, <<"unzip">>, made.err)
                  /\ UNCHANGED tmp
             ELSE IF arch[f].state = "zip"
             THEN /\ tmp' = [tmp EXCEPT ![d] =
                       Dir(ExtractAll(made.dir.files, arch[f].entries,
                                      DOMAIN arch[f].entries))]
                  /\ pc' = [pc EXCEPT ![p] = "process"]
                  /\ calls' = [calls EXCEPT ![p] = Append(@, "unzip")]
                  /\ UNCHANGED <<err, status>>
             ELSE /\ tmp' = [tmp EXCEPT ![d] = made.dir]
                  /\ Raise(p, <<"unzip">>,
                           IF arch[f].state = "missing"
                           THEN "FileNotFoundError" ELSE "BadZipFile")
    /\ UNCHANGED <<arch, linesep, script, argv, jobs, cur, todo, arch0, tmp0>>

\* unzip_files: the mkdir, then ZipFile(filename) and extractall.  An
\* archive that is missing or is no zip archive raises out of ZipFile(...),
\* after the mkdir.
UnzipFiles(p) ==
    /\ pc[p] = "unzip"
    /\ LET f == File(p)
           d == Temp(p)
           made == Mkdir(tmp[d])
       IN /\ out' = [out EXCEPT ![p] =
                        IF made.warned THEN Append(@, Warning) ELSE @]
          /\ IF made.err # "none"
             THEN /\ Raise(p, <<"unzip">>, made.err)
                  /\ UNCHANGED tmp
             ELSE IF arch[f].state = "zip"
             THEN /\ tmp' = [tmp EXCEPT ![d] =
                       Dir(ExtractAll(made.dir.files, arch[f].entries,
                                      DOMAIN arch[f].entries))]
                  /\ pc' = [pc EXCEPT ![p] = "process"]
                  /\ calls' = [calls EXCEPT ![p] = Append(@, "unzip")]
                  /\ UNCHANGED <<err, status>>
             ELSE /\ tmp' = [tmp EXCEPT ![d] = made.dir]
                  /\ Raise(p, <<"unzip">>,
                           IF arch[f].state = "missing"
                           THEN "FileNotFoundError" ELSE "BadZipFile")
    /\ UNCHANGED <<arch, linesep, script, argv, jobs, cur, todo, arch0, tmp0>>

\* process_files is entered (find_replace in ZipReplace.py).  In the base
\* class it is `pass`; in ZipReplace and ScaleZip the loop starts with
\* temp_directory.iterdir(), which lists the children of the directory.
ProcessFiles(p) ==
    /\ pc[p] = "process"
    /\ LET f == File(p)
           d == Temp(p)
       IN IF Self(p).cls = "ZipProcessor"
          THEN /\ pc' = [pc EXCEPT ![p] = "zip"]
               /\ calls' = [calls EXCEPT ![p] = Append(@, "process")]
               /\ UNCHANGED <<todo, err, status>>
          ELSE IF ~tmp[d].present
          THEN /\ Raise(p, <<"process">>, "FileNotFoundError")
               /\ UNCHANGED todo
          ELSE /\ todo' = [todo EXCEPT ![p] = DOMAIN tmp[d].files]
               /\ pc' = [pc EXCEPT ![p] =
                            IF DOMAIN tmp[d].files = {} THEN "zip" ELSE "loop"]
               /\ calls' = [calls EXCEPT ![p] = Append(@, "process")]
               /\ UNCHANGED <<err, status>>
    /\ UNCHANGED <<arch, tmp, linesep, script, argv, jobs, cur, out, arch0, tmp0>>

\* ProcessFile, were the loop to catch what the transform raises and go on
\* to the next child, leaving the child it could not transform as it is.
ProcessFileSkipping(p) ==
    /\ pc[p] = "loop"
    /\ \E n \in todo[p] :
         LET f == File(p)
             d == Temp(p)
             gone == ~tmp[d].present \/ n \notin DOMAIN tmp[d].files
             res == IF gone THEN Failed("FileNotFoundError")
                    ELSE ProcessOne(Self(p), tmp[d].files[n], linesep)
         IN /\ tmp' = IF res.ok
                      THEN [tmp EXCEPT ![d] = Dir(Put(@.files, n, res.node))]
                      ELSE tmp
            /\ todo' = [todo EXCEPT ![p] = @ \ {n}]
            /\ pc' = [pc EXCEPT ![p] = IF todo[p] = {n} THEN "zip" ELSE "loop"]
            /\ UNCHANGED <<err, status, calls>>
    /\ UNCHANGED <<arch, linesep, script, argv, jobs, cur, out, arch0, tmp0>>

\* ProcessFile, were the transformed child also written straight into the
\* archive, opened for writing in the loop.
ProcessFileIntoArchive(p) ==
    /\ pc[p] = "loop"
    /\ \E n \in todo[p] :
         LET f == File(p)
             d == Temp(p)
             gone == ~tmp[d].present \/ n \notin DOMAIN tmp[d].files
             res == IF gone THEN Failed("FileNotFoundError")
                    ELSE ProcessOne(Self(p), tmp[d].files[n], linesep)
         IN IF res.ok
            THEN /\ tmp' = [tmp EXCEPT ![d] = Dir(Put(@.files, n, res.node))]
                 /\ arch' = [arch EXCEPT ![f] = Zip(Put(EmptyMap, <<n>>, res.node))]
                 /\ todo' = [todo EXCEPT ![p] = @ \ {n}]
                 /\ pc' = [pc EXCEPT ![p] =
                              IF todo[p] = {n} THEN "zip" ELSE "loop"]
                 /\ UNCHANGED <<err, status, calls>>
            ELSE /\ Raise(p, <<>>, res.err)
                 /\ UNCHANGED <<arch, tmp, todo>>
    /\ UNCHANGED <<linesep, script, argv, jobs, cur, out, arch0, tmp0>>

\* One turn of the loop of process_files, on a child iterdir() listed (in
\* no fixed order): the child is transformed in place, or the transform
\* raises and the loop, the method and the run end there.
ProcessFile(p) ==
    /\ pc[p] = "loop"
    /\ \E n \in todo[p] :
         LET f == File(p)
             d == Temp(p)
             gone == ~tmp[d].present \/ n \notin DOMAIN tmp[d].files
             res == IF gone THEN Failed("FileNotFoundError")
                    ELSE ProcessOne(Self(p), tmp[d].files[n], linesep)
         IN IF res.ok
            THEN /\ tmp' = [tmp EXCEPT ![d] = Dir(Put(@.files, n, res.node))]
                 /\ todo' = [todo EXCEPT ![p] = @ \ {n}]
                 /\ pc' = [pc EXCEPT ![p] =
                              IF todo[p] = {n} THEN "zip" ELSE "loop"]
                 /\ UNCHANGED <<err, status, calls>>
            ELSE /\ Raise(p, <<>>, res.err)
                 /\ UNCHANGED <<tmp, todo>>
    /\ UNCHANGED <<arch, linesep, script, argv, jobs, cur, out, arch0, tmp0>>

\* zip_files is entered: ZipFile(filename, 'w') creates or truncates the
\* archive file, then iterdir() lists the children to write.
ZipOpen(p) ==
    /\ pc[p] = "zip"
    /\ LET f == File(p)
           d == Temp(p)
       IN /\ arch' = [arch EXCEPT ![f] = Zip(EmptyMap)]
          /\ IF ~tmp[d].present
             THEN /\ Raise(p, <<"zip">>, "FileNotFoundError")
                  /\ UNCHANGED todo
             ELSE /\ todo' = [todo EXCEPT ![p] = DOMAIN tmp[d].files]
                  /\ pc' = [pc EXCEPT ![p] =
                               IF DOMAIN tmp[d].files = {} THEN "rmtree"
                               ELSE "zipwrite"]
                  /\ calls' = [calls EXCEPT ![p] = Append(@, "zip")]
                  /\ UNCHANGED <<err, status>>
    /\ UNCHANGED <<tmp, linesep, script, argv, jobs, cur, out, arch0, tmp0>>

\* zip_files is entered and ZipFile(filename, 'w') raises (the archive file
\* cannot be opened for writing): nothing is written.
ZipOpenFails(p) ==
    /\ pc[p] = "zip"
    /\ Raise(p, <<"zip">>, "PermissionError")
    /\ UNCHANGED <<arch, tmp, linesep, script, argv, jobs, cur, todo, out,
                   arch0, tmp0>>

\* ZipWrite, were the child stored under its path, file.write(str(filename)),
\* and not under its base name.
ZipWriteFullPath(p) ==
    /\ pc[p] = "zipwrite"
    /\ \E n \in todo[p] :
         LET f == File(p)
             d == Temp(p)
             gone == ~tmp[d].present \/ n \notin DOMAIN tmp[d].files
         IN IF gone
            THEN /\ Raise(p, <<>>, "FileNotFoundError")
                 /\ UNCHANGED <<arch, todo>>
            ELSE /\ arch' = [arch EXCEPT ![f] =
                       Zip(Put(@.entries, <<"unzipped", n>>, ArchiveMember(tmp[d].files[n])))]
                 /\ todo' = [todo EXCEPT ![p] = @ \ {n}]
                 /\ pc' = [pc EXCEPT ![p] =
                              IF todo[p] = {n} THEN "rmtree" ELSE "zipwrite"]
                 /\ UNCHANGED <<err, status, calls>>
    /\ UNCHANGED <<tmp, linesep, script, argv, jobs, cur, out, arch0, tmp0>>

\* One turn of the loop of zip_files: file.write(str(filename),
\* filename.name) stores one listed child under its base name.  After the
\* last child the with block closes the archive.
ZipWrite(p) ==
    /\ pc[p] = "zipwrite"
    /\ \E n \in todo[p] :
         LET f == File(p)
             d == Temp(p)
             gone == ~tmp[d].present \/ n \notin DOMAIN tmp[d].files
         IN IF gone
            THEN /\ Raise(p, <<>>, "FileNotFoundError")
                 /\ UNCHANGED <<arch, todo>>
            ELSE /\ arch' = [arch EXCEPT ![f] =
                       Zip(Put(@.entries, <<n>>, ArchiveMember(tmp[d].files[n])))]
                 /\ todo' = [todo EXCEPT ![p] = @ \ {n}]
                 /\ pc' = [pc EXCEPT ![p] =
                              IF todo[p] = {n} THEN "rmtree" ELSE "zipwrite"]
                 /\ UNCHANGED <<err, status, calls>>
    /\ UNCHANGED <<tmp, linesep, script, argv, jobs, cur, out, arch0, tmp0>>

\* file.write raises in the loop of zip_files (an I/O error): the with block
\* closes the archive with the entries written so far.
ZipWriteFails(p) ==
    /\ pc[p] = "zipwrite"
    /\ Raise(p, <<>>, "OSError")
    /\ UNCHANGED <<arch, tmp, linesep, script, argv, jobs, cur, todo, out,
                   arch0, tmp0>>

\* The last statement of zip_files: shutil.rmtree(temp_directory).
Rmtree(p) ==
    /\ pc[p] = "rmtree"
    /\ LET f == File(p)
           d == Temp(p)
       IN IF ~tmp[d].present
          THEN /\ Raise(p, <<"rmtree">>, "FileNotFoundError")
               /\ UNCHANGED tmp
          ELSE /\ tmp' = [tmp EXCEPT ![d] = NoDir]
               /\ pc' = [pc EXCEPT ![p] = "return"]
               /\ calls' = [calls EXCEPT ![p] = Append(@, "rmtree")]
               /\ UNCHANGED <<err, status>>
    /\ UNCHANGED <<arch, linesep, script, argv, jobs, cur, todo, out, arch0, tmp0>>

\* The manager has returned: the next manager of the script is entered, or
\* the __main__ block prints its last line and the process ends, exit
\* status 0.
Return(p) ==
    /\ pc[p] = "return"
    /\ IF cur[p] < Len(jobs[p])
       THEN /\ cur' = [cur EXCEPT ![p] = @ + 1]
            /\ pc' = [pc EXCEPT ![p] = "unzip"]
            /\ UNCHANGED <<out, status>>
       ELSE /\ out' = [out EXCEPT ![p] =
                          IF PrintsExecuted(script[p]) THEN Append(@, Executed)
                          ELSE @]
            /\ pc' = [pc EXCEPT ![p] = "exit"]
            /\ status' = [status EXCEPT ![p] = 0]
            /\ UNCHANGED cur
    /\ UNCHANGED <<arch, tmp, linesep, script, argv, jobs, todo, err, calls,
                   arch0, tmp0>>

Next ==
    \E p \in Procs :
        \/ Main(p)
        \/ UnzipFiles(p)
        \/ ProcessFiles(p)
        \/ ProcessFile(p)
        \/ ZipOpen(p)
        \/ ZipOpenFails(p)
        \/ ZipWrite(p)
        \/ ZipWriteFails(p)
        \/ Rmtree(p)
        \/ Return(p)

\* ------------------------------------------------------------ the start
\* The archive files of the model.  The composition module names its two.
Files == {"x.zip", "y.zip", "Immagini.zip", "provaReplace.zip"}

\* The images an archive holds at the start, as <<width, height>>.
ImageSizes == {<<100, 100>>, <<1920, 1080>>}

TextFiles == {TextFile(t) : t \in Texts}
ImageFiles == {ImageFile(s[1], s[2]) : s \in ImageSizes}

\* The entries of an archive at the start: "f", whose content varies, and
\* beside it, or not, "g" and the nested "sub/f".
VariedNames == {<<"f">>}
OtherNames == {<<"g">>, <<"sub", "f">>}

\* Every map from some of the names to the contents.
Maps(names, contents) ==
    UNION {[S -> contents] : S \in SUBSET names}

Join(m1, m2) ==
    [k \in DOMAIN m1 \cup DOMAIN m2 |-> IF k \in DOMAIN m1 THEN m1[k] ELSE m2[k]]

\* The archive file at the start: missing, not a zip archive, or a zip
\* archive where "f" holds one of `contents` and the other entries `other`.
Archives(contents, other) ==
    {NoArchive, BadArchive}
    \cup {Zip(Join(m, n)) : m \in Maps(VariedNames, contents),
                            n \in Maps(OtherNames, {other})}

\* The temporary directory at the start: absent, empty, or holding one file
\* left there, under the name of an entry or under another name.
Leftovers == {"f", "old"}
Dirs ==
    {NoDir, Dir(EmptyMap)}
    \cup {Dir(Put(EmptyMap, n, TextFile(<<"a">>))) : n \in Leftovers}

\* The strings a search is run with.
Searches == {<<>>, <<"a">>, <<"CR">>}
Replaces == {<<>>, <<"a">>}

\* The managers a caller builds: ZipReplace of each of the three modules,
\* ScaleZip of the two that have it, and the base class ZipProcessor.
ReplaceJobs ==
    {Job(m, "ZipReplace", "x.zip", s, r) :
        m \in {"ZipReplace.py", "ZipProcessor.py", "ZipProcessorComposition.py"},
        s \in Searches, r \in Replaces}
ScaleJobs ==
    {Job(m, "ScaleZip", "x.zip", <<>>, <<>>) :
        m \in {"ScaleZip.py", "ZipProcessorComposition.py"}}
BaseJobs ==
    {Job(m, "ZipProcessor", "x.zip", <<>>, <<>>) :
        m \in {"ZipProcessor.py", "ScaleZip.py"}}

\* sys.argv[1:] of a script given n arguments.
Args(n, s, r) ==
    [i \in 1..n |-> IF i = 1 THEN "x.zip" ELSE IF i = 2 THEN s ELSE r]

Scripts == {"ZipReplace.py", "ZipProcessor.py", "ScaleZip.py"}

\* The filesystem with archive a and directory d for file f, nothing else.
OnlyArch(f, a) == [g \in Files |-> IF g = f THEN a ELSE NoArchive]
OnlyTmp(f, d) ==
    [g \in {TempDirectory(h) : h \in Files} |->
        IF g = TempDirectory(f) THEN d ELSE NoDir]

\* One process, either a caller that holds the manager `job` and calls
\* process_zip (zip_find_replace), or the script s with arguments args.
InitProc(s, args, job) ==
    /\ script = <<s>>
    /\ argv = <<args>>
    /\ jobs = <<IF s = "none" THEN <<job>> ELSE <<>>>>
    /\ cur = <<IF s = "none" THEN 1 ELSE 0>>
    /\ pc = <<IF s = "none" THEN "unzip" ELSE "main">>
    /\ todo = <<{}>>
    /\ err = <<"none">>
    /\ out = <<(<<>>)>>
    /\ status = <<-1>>
    /\ calls = <<(<<>>)>>

\* A caller runs a search-and-replace manager on an archive of texts (and,
\* possibly, a file that is no text).
InitReplace ==
    /\ \E job \in ReplaceJobs : InitProc("none", <<>>, job)
    /\ \E a \in Archives(TextFiles \cup {ImageFile(100, 100)}, TextFile(<<"a">>)) :
          arch = OnlyArch("x.zip", a)
    /\ \E d \in Dirs : tmp = OnlyTmp("x.zip", d)

\* A caller runs a scaling manager or the base manager on an archive of
\* images (and, possibly, a file that is no image).
InitScale ==
    /\ \E job \in ScaleJobs \cup BaseJobs : InitProc("none", <<>>, job)
    /\ \E a \in Archives(ImageFiles \cup {TextFile(<<"a">>)}, ImageFile(100, 100)) :
          arch = OnlyArch("x.zip", a)
    /\ \E d \in Dirs : tmp = OnlyTmp("x.zip", d)

\* The archives the scripts are started on.
ScriptArchives ==
    {NoArchive, BadArchive,
     Zip(Put(EmptyMap, <<"f">>, TextFile(<<"a", "a">>))),
     Zip(Put(EmptyMap, <<"f">>, ImageFile(100, 100)))}

\* A script of the three with a __main__ block, with 0..MaxArgc arguments.
InitScript ==
    /\ \E s \in Scripts, n \in 0..MaxArgc :
          InitProc(s, Args(n, <<"a">>, <<>>), Job("", "", "", <<>>, <<>>))
    /\ \E a \in ScriptArchives : arch = OnlyArch("x.zip", a)
    /\ \E d \in {NoDir, Dir(EmptyMap)} : tmp = OnlyTmp("x.zip", d)

\* The composition module, run or imported.
InitComposition ==
    /\ InitProc("ZipProcessorComposition.py", <<>>, Job("", "", "", <<>>, <<>>))
    /\ \E a1 \in ScriptArchives, a2 \in ScriptArchives :
          arch = [g \in Files |-> IF g = "Immagini.zip" THEN a1
                                  ELSE IF g = "provaReplace.zip" THEN a2
                                  ELSE NoArchive]
    /\ \E d \in {NoDir, Dir(EmptyMap)} : tmp = OnlyTmp("provaReplace.zip", d)

Init ==
    /\ linesep \in LineSeps
    /\ \/ InitReplace
       \/ InitScale
       \/ InitScript
       \/ InitComposition
    /\ arch0 = arch
    /\ tmp0 = tmp

Spec == Init /\ [][Next]_vars

\* ------------------------------------------------------------ two runs
\* Two callers, each holding one manager, whose steps interleave: two
\* processes started on the same filesystem, or two threads of one program.
ProcsTwo == {1, 2}

\* The managers of the two callers: a search-and-replace that changes every
\* text it is run on, the base manager, and a scaling manager.
TwoJobs(f) ==
    {Job("ZipProcessor.py", "ZipReplace", f, <<>>, <<"a">>),
     Job("ZipProcessor.py", "ZipProcessor", f, <<>>, <<>>),
     Job("ScaleZip.py", "ScaleZip", f, <<>>, <<>>)}

\* The archives they are run on.
TwoArchives ==
    {NoArchive,
     Zip(Put(EmptyMap, <<"f">>, TextFile(<<"a">>))),
     Zip(Put(Put(EmptyMap, <<"f">>, TextFile(<<"a">>)), <<"g">>, TextFile(<<"a">>))),
     Zip(Put(EmptyMap, <<"f">>, ImageFile(100, 100)))}

\* The first caller has a manager for "x.zip"; the second has one for
\* "x.zip" too, or one for "y.zip".
InitTwo ==
    /\ linesep \in LineSeps
    /\ \E f2 \in {"x.zip", "y.zip"} :
         /\ \E j1 \in TwoJobs("x.zip"), j2 \in TwoJobs(f2) :
               jobs = <<(<<j1>>), (<<j2>>)>>
         /\ \E a1 \in TwoArchives, a2 \in TwoArchives :
               arch = [g \in Files |->
                         IF g = "x.zip" THEN a1
                         ELSE IF g = f2 THEN a2 ELSE NoArchive]
    /\ \E d \in {NoDir, Dir(Put(EmptyMap, "old", TextFile(<<"a">>)))} :
          tmp = OnlyTmp("x.zip", d)
    /\ script = <<"none", "none">>
    /\ argv = <<(<<>>), (<<>>)>>
    /\ cur = <<1, 1>>
    /\ pc = <<"unzip", "unzip">>
    /\ todo = <<{}, {}>>
    /\ err = <<"none", "none">>
    /\ out = <<(<<>>), (<<>>)>>
    /\ status = <<-1, -1>>
    /\ calls = <<(<<>>), (<<>>)>>
    /\ arch0 = arch
    /\ tmp0 = tmp

NextTwo ==
    \E p \in ProcsTwo :
        \/ UnzipFiles(p)
        \/ ProcessFiles(p)
        \/ ProcessFile(p)
        \/ ZipOpen(p)
        \/ ZipOpenFails(p)
        \/ ZipWrite(p)
        \/ ZipWriteFails(p)
        \/ Rmtree(p)
        \/ Return(p)

SpecTwo == InitTwo /\ [][NextTwo]_vars

\* ------------------------------------------------------------ properties
Range(q) == {q[i] : i \in DOMAIN q}

\* Process p has built a manager and entered it.
Ran(p) == jobs[p] # <<>>
Ended(p) == pc[p] = "exit"
Succeeded(p) == Ran(p) /\ Ended(p) /\ err[p] = "none"

\* The calls of the manager that p is running, or ran last: calls[p] from
\* its last "unzip" on.
RunCalls(p) ==
    LET c == calls[p]
        starts == {i \in DOMAIN c : c[i] = "unzip"}
    IN IF starts = {} THEN <<>>
       ELSE SubSeq(c, CHOOSE i \in starts : \A j \in starts : j <= i, Len(c))

Count(q, x) == Cardinality({i \in DOMAIN q : q[i] = x})

\* C1: every run of a manager, however it ends (success, or an exception
\* in unzip_files, in process_files or in zip_files), has removed its
\* temporary directory exactly once when it ends: the directory is absent.
C1_DirRemovedOnEveryExit ==
    \A p \in Procs :
        (Ran(p) /\ Ended(p)) =>
            /\ ~tmp[Temp(p)].present
            /\ Count(RunCalls(p), "rmtree") = 1

\* C2: a run on an archive that is missing or is no zip archive, started
\* with no temporary directory, ends with the error of the unreadable
\* archive and with no temporary directory.
C2_BadArchiveLeavesNoDir ==
    \A p \in Procs :
        (Ran(p) /\ Ended(p) /\ arch0[File(p)].state # "zip"
                /\ ~tmp0[Temp(p)].present) =>
            /\ err[p] \in {"FileNotFoundError", "BadZipFile"}
            /\ ~tmp[Temp(p)].present

\* The order of the phases, as the states of one run: the next state after
\* one more entry of calls, "bad" when the entry is out of order.
PhaseStep(state, call) ==
    CASE call = "raise" /\ state \in {"unzip", "process", "zip", "rmtree"}
            -> "failed"
      [] call = "unzip" /\ state = "idle" -> "unzip"
      [] call = "process" /\ state = "unzip" -> "process"
      [] call = "zip" /\ state = "process" -> "zip"
      [] call = "rmtree" /\ state = "zip" -> "rmtree"
      [] OTHER -> "bad"

\* A run that has removed its directory has returned: the next manager of
\* the script may start.
RECURSIVE PhaseAfter(_, _)
PhaseAfter(state, q) ==
    IF q = <<>> THEN state
    ELSE PhaseAfter(PhaseStep(IF state = "rmtree" THEN "idle" ELSE state, Head(q)),
                    Tail(q))

\* C3: in a run the phases are entered in the order unzip, process, zip,
\* each at most once and each only after the one before it has returned;
\* after a phase has raised, no phase is entered.
C3_PhasesInOrder ==
    \A p \in Procs : PhaseAfter("idle", calls[p]) # "bad"

\* A run whose process phase raised, after its unzip phase returned.
C3_Witness ==
    \E p \in Procs : calls[p] = <<"unzip", "process", "raise">>

\* The entries of p's archive at the start and now.
Entries0(p) == arch0[File(p)].entries
Entries(p) == arch[File(p)].entries

\* A search-and-replace run that succeeded.
ReplaceDone(p) == Succeeded(p) /\ Self(p).cls = "ZipReplace"

\* C4: after a successful search-and-replace run, the content of every
\* entry of the archive is its content before the run with every
\* occurrence of the search string replaced by the replace string.
C4_EveryOccurrenceReplaced ==
    \A p \in Procs :
        ReplaceDone(p) =>
            \A n \in DOMAIN Entries0(p) :
                /\ n \in DOMAIN Entries(p)
                /\ Entries(p)[n] =
                      TextFile(StrReplace(Entries0(p)[n].data,
                                          Self(p).search, Self(p).replace))

\* C5: after a successful run the archive has the entries it had before the
\* run, under the same names, whatever the filesystem was at the start.
C5_EntryNamesPreserved ==
    \A p \in Procs :
        Succeeded(p) => DOMAIN Entries(p) = DOMAIN Entries0(p)

\* C6: a successful search-and-replace run whose search string is its
\* replace string leaves the content of every entry as it was.
C6_SameStringsChangeNothing ==
    \A p \in Procs :
        (ReplaceDone(p) /\ Self(p).search = Self(p).replace) =>
            \A n \in DOMAIN Entries0(p) :
                n \in DOMAIN Entries(p) /\ Entries(p)[n] = Entries0(p)[n]

\* C7: after a successful ScaleZip run every entry of the archive is an
\* image of 640 x 480 pixels, whatever its size was.
C7_AllScaled ==
    \A p \in Procs :
        (Succeeded(p) /\ Self(p).cls = "ScaleZip") =>
            \A n \in DOMAIN Entries(p) :
                Entries(p)[n] = ImageFile(640, 480)

\* A successful ScaleZip run on an archive that held a 1920 x 1080 image
\* and a 100 x 100 image.
C7_Witness ==
    \E p \in Procs :
        /\ Succeeded(p) /\ Self(p).cls = "ScaleZip"
        /\ Cardinality(DOMAIN Entries(p)) = 2
        /\ \E n \in DOMAIN Entries0(p) : Entries0(p)[n] = ImageFile(1920, 1080)
        /\ \E n \in DOMAIN Entries0(p) : Entries0(p)[n] = ImageFile(100, 100)

\* The manager p runs has entered unzip_files.
Unzipped(p) == Ran(p) /\ pc[p] \notin {"main", "unzip"}

\* C8: when the temporary directory is there at the start of a run, that is
\* no error: the warning is printed, the run goes on to extract the archive
\* (it raises only if the archive cannot be read), and after the extraction
\* the directory holds what it held and the top-level entries of the archive.
C8_ExistingDirReused ==
    \A p \in Procs :
        (Unzipped(p) /\ tmp0[Temp(p)].present) =>
            /\ Warning \in Range(out[p])
            /\ err[p] # "FileExistsError"
            /\ arch0[File(p)].state = "zip" => RunCalls(p) # <<"unzip", "raise">>
            /\ pc[p] = "process" =>
                  /\ tmp[Temp(p)].present
                  /\ DOMAIN tmp0[Temp(p)].files \subseteq DOMAIN tmp[Temp(p)].files
                  /\ \A n \in DOMAIN Entries0(p) :
                        Len(n) = 1 => tmp[Temp(p)].files[n[1]] = Entries0(p)[n]

\* A run has extracted an archive into a directory that held a file "old".
C8_Witness ==
    \E p \in Procs :
        /\ pc[p] = "process"
        /\ "old" \in DOMAIN tmp0[Temp(p)].files
        /\ {"old", "f"} \subseteq DOMAIN tmp[Temp(p)].files
        /\ out[p] = <<Warning>>

\* C9: as long as a run has not entered zip_files, whether it is running or
\* has raised in unzip_files or in process_files, the archive file is as it
\* was before the run.
C9_ArchiveUntouchedBeforeZip ==
    \A p \in Procs :
        (Ran(p) /\ "zip" \notin Range(RunCalls(p))) =>
            arch[File(p)] = arch0[File(p)]

\* A run on a zip archive with entries has raised in process_files.
C9_Witness ==
    \E p \in Procs :
        /\ Ended(p) /\ RunCalls(p) = <<"unzip", "process", "raise">>
        /\ arch[File(p)].state = "zip" /\ DOMAIN Entries(p) # {}

\* The number of arguments the script of p asks for.
WantedArgc(p) == IF script[p] = "ScaleZip.py" THEN ScaleZipArgc ELSE ZipReplaceArgc

\* C10: a script started with the wrong number of arguments prints the
\* usage message, ends with a non-zero exit status and touches no file: it
\* runs no manager, makes no directory, writes no archive.
C10_WrongArgcExitsNonZero ==
    \A p \in Procs :
        (script[p] \in Scripts /\ Len(argv[p]) # WantedArgc(p) /\ Ended(p)) =>
            /\ UsageExample \in Range(out[p])
            /\ status[p] # 0
            /\ ~Ran(p)
            /\ arch = arch0 /\ tmp = tmp0

\* ------------------------------------------------------------ a run alone
\* What one run of the manager `job` makes, when nothing else touches the
\* filesystem and no write fails, of the archive a and the directory d: the
\* children of the directory after unzip_files, whether process_files gets
\* through them, what they are after it, and the archive zip_files writes.
SoloExtracted(a, d) == ExtractAll(Mkdir(d).dir.files, a.entries, DOMAIN a.entries)

SoloTransformable(job, files, ls) ==
    \/ job.cls = "ZipProcessor"
    \/ \A n \in DOMAIN files : ProcessOne(job, files[n], ls).ok

SoloProcessed(job, files, ls) ==
    [n \in DOMAIN files |->
        IF job.cls = "ZipProcessor" THEN files[n]
        ELSE ProcessOne(job, files[n], ls).node]

SoloArchive(job, a, d, ls) ==
    LET files == SoloProcessed(job, SoloExtracted(a, d), ls)
    IN Zip([e \in {<<n>> : n \in DOMAIN files} |-> ArchiveMember(files[e[1]])])

\* The other of the two callers.
Other(p) == CHOOSE q \in ProcsTwo : q # p

\* C11: two runs on archives of different names have different temporary
\* directories; however their steps interleave, neither finds its archive
\* or its directory touched by the other before it starts, neither meets a
\* file that is gone, and a run that succeeds leaves the archive it leaves
\* when it runs alone, with its directory removed.
C11_DifferentNamesIndependent ==
    \A p \in ProcsTwo :
        File(p) # File(Other(p)) =>
            /\ Temp(p) # Temp(Other(p))
            /\ pc[p] = "unzip" =>
                  /\ arch[File(p)] = arch0[File(p)]
                  /\ tmp[Temp(p)] = tmp0[Temp(p)]
            /\ err[p] = "FileNotFoundError" => arch0[File(p)].state = "missing"
            /\ Succeeded(p) =>
                  /\ arch[File(p)] = SoloArchive(Self(p), arch0[File(p)],
                                                 tmp0[Temp(p)], linesep)
                  /\ ~tmp[Temp(p)].present

\* The first run has succeeded and changed its archive while the second,
\* on an archive of another name, is writing its own.
C11_Witness ==
    /\ File(1) # File(2)
    /\ Succeeded(1)
    /\ arch[File(1)] # arch0[File(1)]
    /\ pc[2] = "zipwrite"
    /\ tmp[Temp(2)].present
    /\ arch[File(2)] # arch0[File(2)]

\* C12: two runs on the same archive name have one and the same temporary
\* directory and nothing makes either wait for the other: whatever the
\* other run is doing, even between its extraction and its rmtree, a run
\* that is to enter unzip_files, to open the archive for writing or to
\* remove the directory can take that step.
C12_SameNameNoGuard ==
    \A p \in ProcsTwo :
        File(p) = File(Other(p)) =>
            /\ Temp(p) = Temp(Other(p))
            /\ pc[p] = "unzip" => ENABLED UnzipFiles(p)
            /\ pc[p] = "zip" => ENABLED ZipOpen(p)
            /\ pc[p] = "rmtree" => ENABLED Rmtree(p)

\* The collision: both runs are on the same archive, which was there to be
\* extracted; the first extracted it and went on, the second removed the
\* directory at the end of its own run, and the first ended with
\* FileNotFoundError for its directory or a file in it.
C12_Witness ==
    /\ File(1) = File(2)
    /\ arch0[File(1)].state = "zip"
    /\ "unzip" \in Range(calls[1])
    /\ Ended(1)
    /\ err[1] = "FileNotFoundError"
    /\ "rmtree" \in Range(calls[2])

\* C13: when a run has extracted the archive, the directory it extracted
\* into held nothing before the run: it was absent, or present and empty.
C13_ExtractsIntoEmptyDir ==
    \A p \in Procs :
        (Unzipped(p) /\ "unzip" \in Range(RunCalls(p))) =>
            DOMAIN tmp0[Temp(p)].files = {}

\* Every file of an archive: its entries that are not directory entries.
FileEntries(entries) == {e \in DOMAIN entries : entries[e] # DirEntry}

\* The last component of a path, as a path of its own.
BaseName(e) == <<e[Len(e)]>>

\* C14: after a successful run the archive holds a file under the base name
\* of every file that was extracted from it, whatever directory it was in,
\* and every name in the archive is a base name, the name of a file.
C14_RepackFlattensAll ==
    \A p \in Procs :
        Succeeded(p) =>
            /\ \A e \in FileEntries(Entries0(p)) :
                  BaseName(e) \in FileEntries(Entries(p))
            /\ \A e \in DOMAIN Entries(p) :
                  Len(e) = 1 /\ Entries(p)[e] # DirEntry

\* zip_files of p opened the archive for writing and then raised in its loop.
ZipFailedPartway(p) == Ran(p) /\ Ended(p) /\ err[p] = "OSError"

\* C15: right after zip_files has opened the archive for writing the
\* archive is empty; when zip_files raises in its loop the run has ended
\* failed and the archive holds neither its entries of before the run nor
\* an entry for every child of the directory.
C15_PartialRepackLosesOriginal ==
    \A p \in Procs :
        /\ (pc[p] = "zipwrite" /\ todo[p] = DOMAIN tmp[Temp(p)].files) =>
              Entries(p) = EmptyMap
        /\ ZipFailedPartway(p) =>
              /\ status[p] # 0
              /\ Entries(p) # Entries0(p)
              /\ DOMAIN Entries(p) # {<<n>> : n \in DOMAIN tmp[Temp(p)].files}

\* The run of p ended in its process_files, by what a transform raised.
TransformRaised(p) ==
    Ran(p) /\ Ended(p) /\ RunCalls(p) = <<"unzip", "process", "raise">>

\* The children of the directory of p as unzip_files left them.
Extracted(p) == SoloExtracted(arch0[File(p)], tmp0[Temp(p)])

\* zip_files of p has been entered.
Repacking(p) ==
    Ran(p) /\ (pc[p] \in {"zip", "zipwrite", "rmtree", "return"}
               \/ (Ended(p) /\ "zip" \in Range(RunCalls(p))))

OriginalDesign(job) == [job EXCEPT !.module = "ZipReplace.py"]

\* C17: a search-and-replace run of any of the three designs does what the
\* first design does on the same archive, directory and strings: it enters
\* zip_files exactly when the first design can transform every extracted
\* child, in its loop every child is as extracted or as the first design
\* rewrites it, and when it succeeds it has gone through unzip, process,
\* zip and rmtree, the archive is the one the first design writes and the
\* directory is gone.
C17_ThreeDesignsAgree ==
    \A p \in Procs :
        (Ran(p) /\ Self(p).cls = "ZipReplace") =>
            LET ref == OriginalDesign(Self(p))
                rewritten == SoloProcessed(ref, Extracted(p), linesep)
            IN /\ Repacking(p) => SoloTransformable(ref, Extracted(p), linesep)
               /\ TransformRaised(p) => ~SoloTransformable(ref, Extracted(p), linesep)
               /\ pc[p] = "loop" =>
                     \A n \in DOMAIN tmp[Temp(p)].files :
                         tmp[Temp(p)].files[n] =
                             IF n \in todo[p] THEN Extracted(p)[n] ELSE rewritten[n]
               /\ Succeeded(p) =>
                     /\ RunCalls(p) = <<"unzip", "process", "zip", "rmtree">>
                     /\ arch[File(p)] = SoloArchive(ref, arch0[File(p)],
                                                    tmp0[Temp(p)], linesep)
                     /\ ~tmp[Temp(p)].present

\* A run of the third design, the composition, succeeded on an archive
\* with a carriage return in a text and left another archive than it found.
C17_Witness ==
    \E p \in Procs :
        /\ ReplaceDone(p)
        /\ Self(p).module = "ZipProcessorComposition.py"
        /\ \E e \in DOMAIN Entries0(p) :
              /\ Entries0(p)[e].kind = "text"
              /\ "CR" \in Range(Entries0(p)[e].data)
        /\ arch[File(p)] # arch0[File(p)]

\* The archive p was started on holds files only, none in a directory.
FlatArchive(p) ==
    \A e \in DOMAIN Entries0(p) : Len(e) = 1 /\ Entries0(p)[e] # DirEntry

\* C18: a successful run of the base manager ZipProcessor, whose
\* process_files does nothing, on an archive without nested paths and with
\* no directory there before, leaves the archive with the entries and the
\* contents it had, and the directory absent.
C18_BaseManagerIsIdentity ==
    \A p \in Procs :
        (/\ Succeeded(p)
         /\ Self(p).cls = "ZipProcessor"
         /\ FlatArchive(p)
         /\ ~tmp0[Temp(p)].present) =>
            /\ arch[File(p)] = arch0[File(p)]
            /\ ~tmp[Temp(p)].present

\* The base manager succeeded on an archive of two entries, starting with
\* no directory.
C18_Witness ==
    \E p \in Procs :
        /\ Succeeded(p)
        /\ Self(p).cls = "ZipProcessor"
        /\ FlatArchive(p)
        /\ ~tmp0[Temp(p)].present
        /\ Cardinality(DOMAIN Entries0(p)) = 2
        /\ RunCalls(p) = <<"unzip", "process", "zip", "rmtree">>

\* The top-level names an archive extracts to.
TopNames(entries) == {e[1] : e \in DOMAIN entries}

====
